---------------------------- MODULE Spec2Model ----------------------------
(***************************************************************************)
(* Model of numpycpp.h: reshape, isdiag, vstack, hstack, block_diag (two   *)
(* and three inputs) and kron over Eigen::MatrixXf.                        *)
(*                                                                         *)
(* A matrix is a record [rows, cols, data]; data is the coefficient buffer *)
(* in Eigen's default column-major order, so coefficient (i, j) is         *)
(* data[i + j*rows + 1].  A float is modelled by the integer number of     *)
(* 2^-20 steps it holds (One is 1.0f); every value used is a dyadic        *)
(* rational that float32 represents exactly, and so are all sums and       *)
(* products formed from them.                                              *)
(*                                                                         *)
(* The library keeps no state.  The state of the model is one call: the    *)
(* operation, its arguments, and what the caller observes afterwards.      *)
(***************************************************************************)
EXTENDS Integers, Sequences, FiniteSets

\* op      the function called ("reshape_back": reshape called a second
\*         time, on the result of the first call)
\* m1..m3  the matrix arguments (m1 is reshape's x and isdiag's x)
\* r, c    reshape's dimensions
\* status  "pending" before the call, then "returned" or "abort"
\* ub      the call went outside the contract of Eigen or of the language
\* rm, rb  the matrix / the boolean returned
\* mid     the argument of the second reshape
VARIABLES op, m1, m2, m3, r, c, status, ub, rm, rb, mid

vars == <<op, m1, m2, m3, r, c, status, ub, rm, rb, mid>>

\* Largest row/column count of an argument of the structural operations.
MaxDim == 2

\* Largest row/column count of an argument of isdiag.
DiagDim == 3

\* 1.0f in 2^-20 steps.
One == 2^20

\* 1 / 0.00001, the tolerance of isdiag.
TolInv == 100000

\* What an uninitialised or out-of-buffer float may hold.
Garbage == {-99 * One, 77 * One}

Abs(v) == IF v < 0 THEN -v ELSE v

(* ---------------------------- Eigen substrate -------------------------- *)

\* Number of coefficients of an rr x cc matrix.
Count(rr, cc) == rr * cc

\* Row and column of the k-th coefficient (k from 1) of a column-major buffer
\* with rr rows.
RowOf(k, rr) == (k - 1) % rr
ColOf(k, rr) == (k - 1) \div rr

\* x.size()
Size(x) == Count(x.rows, x.cols)

\* x(i, j)
Get(x, i, j) == x.data[i + j * x.rows + 1]

\* MatrixXf::Zero(rr, cc)
Zero(rr, cc) ==
    [rows |-> rr, cols |-> cc, data |-> [k \in 1..Count(rr, cc) |-> 0]]

\* MatrixXf m(rr, cc): allocated, coefficients not initialised (they hold g).
Uninit(rr, cc, g) ==
    [rows |-> rr, cols |-> cc, data |-> [k \in 1..Count(rr, cc) |-> g]]

\* A default-constructed MatrixXf.
Empty == Zero(0, 0)

\* x.block(r0, c0, b.rows, b.cols) = b; coefficients of the block that lie
\* outside x are not stored in x.
SetBlock(x, r0, c0, b) ==
    [x EXCEPT !.data =
        [k \in 1..Size(x) |->
            LET i == RowOf(k, x.rows)
                j == ColOf(k, x.rows)
            IN  IF /\ r0 <= i /\ i < r0 + b.rows
                   /\ c0 <= j /\ j < c0 + b.cols
                THEN Get(b, i - r0, j - c0)
                ELSE x.data[k]]]

\* The float product s * v, that is s * v / One in steps, formed from the
\* whole and the fractional part of s so that no intermediate value leaves
\* 32 bits.
Times(s, v) == (s \div One) * v + ((s % One) * v) \div One

\* s * x for a float s
Scale(s, x) ==
    [x EXCEPT !.data = [k \in 1..Size(x) |-> Times(s, x.data[k])]]

\* t - x for two matrices of one shape
Minus(t, x) ==
    [t EXCEPT !.data = [k \in 1..Size(t) |-> t.data[k] - x.data[k]]]

\* x.diagonal().asDiagonal() for a square x
AsDiagonal(x) ==
    [x EXCEPT !.data =
        [k \in 1..Size(x) |->
            IF RowOf(k, x.rows) = ColOf(k, x.rows) THEN x.data[k] ELSE 0]]

\* Sum of the first n entries of the buffer s.
RECURSIVE SumTo(_, _)
SumTo(s, n) == IF n = 0 THEN 0 ELSE s[n] + SumTo(s, n - 1)

\* x.sum()
Sum(x) == SumTo(x.data, Size(x))

\* rm << a, b; as Eigen's CommaInitializer (3.4) does it: a goes to the top-left
\* corner, b to the right of a or, when the row of blocks is full, below it.
\* ok is the conjunction of the initializer's eigen_asserts; m is what rm
\* holds afterwards when they are compiled out.
CommaInit(x, a, b) ==
    LET fits    == x.rows >= a.rows /\ x.cols >= a.cols
        x1      == SetBlock(x, 0, 0, a)
        newRow  == a.cols = x.cols /\ (b.cols # 0 \/ b.rows # a.rows)
        row     == IF newRow THEN a.rows ELSE 0
        col     == IF newRow THEN 0 ELSE a.cols
        curRows == IF newRow THEN b.rows ELSE a.rows
        x2      == SetBlock(x1, row, col, b)
    IN  [ok |-> /\ fits
                /\ row + curRows <= x.rows
                /\ col + b.cols <= x.cols
                /\ curRows = b.rows
                /\ (row + curRows = x.rows \/ x.cols = 0)
                /\ col + b.cols = x.cols,
         m  |-> x2]

(* ------------------------------ numpycpp.h ----------------------------- *)
\* Each operation yields [ub, m]: m is the matrix returned, ub tells that
\* the call read or wrote outside a buffer, left coefficients of m
\* uninitialised, or broke an eigen_assert.  g is the value such
\* coefficients turn out to hold.

\* reshape reading and writing the coefficients in row-major order.
reshape_rowmajor(x, rr, cc, g) ==
    [ub |-> Count(rr, cc) > Size(x),
     m  |-> [rows |-> rr, cols |-> cc,
             data |-> [k \in 1..Count(rr, cc) |->
                         LET l == RowOf(k, rr) * cc + ColOf(k, rr)
                         IN  IF l < Size(x)
                             THEN Get(x, l \div x.cols, l % x.cols)
                             ELSE g]]]

\* reshape with the two dimensions handed to the Map in the wrong order.
reshape_swapped(x, rr, cc, g) ==
    [ub |-> Count(rr, cc) > Size(x),
     m  |-> [rows |-> cc, cols |-> rr,
             data |-> [k \in 1..Count(rr, cc) |->
                         IF k <= Size(x) THEN x.data[k] ELSE g]]]

reshape(x, rr, cc, g) ==
    [ub |-> Count(rr, cc) > Size(x),
     m  |-> [rows |-> rr, cols |-> cc,
             data |-> [k \in 1..Count(rr, cc) |->
                         IF k <= Size(x) THEN x.data[k] ELSE g]]]

\* isdiag testing the sum of the absolute values of t - x.
isdiag_abs(x) ==
    IF x.cols # x.rows
    THEN FALSE
    ELSE LET t == AsDiagonal(x)
             d == Minus(t, x)
             a == [d EXCEPT !.data = [k \in 1..Size(d) |-> Abs(d.data[k])]]
         IN  IF Sum(a) > One \div TolInv THEN FALSE ELSE TRUE

\* 0.00001 is One / TolInv = 10.48... steps, not a whole number of them: a
\* sum of whole steps is >= 0.00001 exactly when it exceeds One \div TolInv.
isdiag(x) ==
    IF x.cols # x.rows
    THEN FALSE
    ELSE LET t == AsDiagonal(x)
         IN  IF Abs(Sum(Minus(t, x))) > One \div TolInv THEN FALSE ELSE TRUE

\* vstack with the two operands written in the wrong order.
vstack_swapped(a, b, g) ==
    IF a.rows = 0 THEN [ub |-> FALSE, m |-> b]
    ELSE IF b.rows = 0 THEN [ub |-> FALSE, m |-> a]
    ELSE LET ncol == IF a.cols = 0 THEN b.cols ELSE a.cols
             ci   == CommaInit(Uninit(a.rows + b.rows, ncol, g), b, a)
         IN  [ub |-> ~ci.ok, m |-> ci.m]

vstack(a, b, g) ==
    IF a.rows = 0 THEN [ub |-> FALSE, m |-> b]
    ELSE IF b.rows = 0 THEN [ub |-> FALSE, m |-> a]
    ELSE LET ncol == IF a.cols = 0 THEN b.cols ELSE a.cols
             ci   == CommaInit(Uninit(a.rows + b.rows, ncol, g), a, b)
         IN  [ub |-> ~ci.ok, m |-> ci.m]

\* hstack with the two operands written in the wrong order.
hstack_swapped(a, b, g) ==
    IF a.cols = 0 THEN [ub |-> FALSE, m |-> b]
    ELSE IF b.cols = 0 THEN [ub |-> FALSE, m |-> a]
    ELSE LET nrow == IF a.rows = 0 THEN b.rows ELSE a.rows
             ci   == CommaInit(Uninit(nrow, a.cols + b.cols, g), b, a)
         IN  [ub |-> ~ci.ok, m |-> ci.m]

hstack(a, b, g) ==
    IF a.cols = 0 THEN [ub |-> FALSE, m |-> b]
    ELSE IF b.cols = 0 THEN [ub |-> FALSE, m |-> a]
    ELSE LET nrow == IF a.rows = 0 THEN b.rows ELSE a.rows
             ci   == CommaInit(Uninit(nrow, a.cols + b.cols, g), a, b)
         IN  [ub |-> ~ci.ok, m |-> ci.m]

block_diag(a, b) ==
    LET mf == Zero(a.rows + b.rows, a.cols + b.cols)
    IN  SetBlock(SetBlock(mf, 0, 0, a), a.rows, a.cols, b)

\* block_diag with the column offset of the third block computed from the
\* rows of the second.
block_diag3_offset(a, b, d) ==
    LET bdm == Zero(a.rows + b.rows + d.rows, a.cols + b.cols + d.cols)
    IN  SetBlock(SetBlock(SetBlock(bdm, 0, 0, a), a.rows, a.cols, b),
                 a.rows + b.rows, a.cols + b.rows, d)

block_diag3(a, b, d) ==
    LET bdm == Zero(a.rows + b.rows + d.rows, a.cols + b.cols + d.cols)
    IN  SetBlock(SetBlock(SetBlock(bdm, 0, 0, a), a.rows, a.cols, b),
                 a.rows + b.rows, a.cols + b.cols, d)

\* The two loops of kron from their n-th iteration on: i = n \div a.cols is
\* the outer index, j = n % a.cols the inner one.
RECURSIVE KronLoop(_, _, _, _)
KronLoop(x, a, b, n) ==
    IF n >= Size(a)
    THEN x
    ELSE LET i == n \div a.cols
             j == n % a.cols
         IN  KronLoop(SetBlock(x, i * b.rows, j * b.cols,
                               Scale(Get(a, i, j), b)),
                      a, b, n + 1)

\* kron whose inner loop stops one column early.
kron_short(a, b, g) ==
    KronLoop(Uninit(a.rows * b.rows, a.cols * b.cols, g),
             [a EXCEPT !.cols = IF @ > 0 THEN @ - 1 ELSE 0], b, 0)

kron(a, b, g) ==
    KronLoop(Uninit(a.rows * b.rows, a.cols * b.cols, g), a, b, 0)

(* ------------------------------- callers ------------------------------- *)

\* Fillings of the argument matrices: coefficient k (column-major, from 1)
\* holds seed * k.
Seeds == {-1, 1, 2}

Filled(rr, cc, s) ==
    [rows |-> rr, cols |-> cc,
     data |-> [k \in 1..Count(rr, cc) |-> s * k * One]]

MatsOf(s) == {Filled(rr, cc, s) : rr \in 0..MaxDim, cc \in 0..MaxDim}

Mats == UNION {MatsOf(s) : s \in Seeds}

\* Arguments of isdiag: a diagonal matrix (zero, or 1, 2, ... down the
\* diagonal) with up to two coefficients changed by 1.0 or by about 5.7e-6.
DiagVals == {0, One, -One, 6, -6}

DiagBase(rr, cc, d) ==
    [rows |-> rr, cols |-> cc,
     data |-> [k \in 1..Count(rr, cc) |->
                 IF RowOf(k, rr) = ColOf(k, rr)
                 THEN d * (RowOf(k, rr) + 1) * One ELSE 0]]

Perturb(x, k, v) == [x EXCEPT !.data[k] = @ + v]

PerturbedOf(x) ==
    {x} \cup {Perturb(Perturb(x, k1, v1), k2, v2) :
                 k1 \in 1..Size(x), k2 \in 1..Size(x),
                 v1 \in DiagVals, v2 \in DiagVals}

DiagMats ==
    UNION {PerturbedOf(DiagBase(rr, cc, d)) :
              rr \in 0..DiagDim, cc \in 0..DiagDim, d \in {0, 1}}

\* How a call that went outside its contract ends: the process dies (a
\* failed eigen_assert, a fault on the stray access) or the call returns.
Ending(u, fault) == IF u /\ fault THEN "abort" ELSE "returned"

\* The caller holds the arguments of the one call it is about to make.
Init ==
    /\ status = "pending" /\ ub = FALSE
    /\ rm = Empty /\ rb = FALSE /\ mid = Empty
    /\ \/ /\ op = "reshape"
          /\ m1 \in Mats /\ m2 = Empty /\ m3 = Empty
          /\ r \in 0..(MaxDim * MaxDim) /\ c \in 0..(MaxDim * MaxDim)
       \/ /\ op = "isdiag"
          /\ m1 \in DiagMats /\ m2 = Empty /\ m3 = Empty
          /\ r = 0 /\ c = 0
       \/ /\ op \in {"vstack", "hstack", "block_diag", "kron"}
          /\ m1 \in Mats /\ m2 \in Mats /\ m3 = Empty
          /\ r = 0 /\ c = 0
       \/ /\ op = "block_diag3"
          /\ m1 \in MatsOf(1) /\ m2 \in MatsOf(2) /\ m3 \in MatsOf(-1)
          /\ r = 0 /\ c = 0

CallReshape ==
    /\ op = "reshape" /\ status = "pending"
    /\ \E g \in Garbage, fault \in BOOLEAN :
          LET res == reshape(m1, r, c, g)
          IN  /\ ub' = res.ub
              /\ status' = Ending(res.ub, fault)
              /\ rm' = IF res.ub /\ fault THEN Empty ELSE res.m
    /\ UNCHANGED <<op, m1, m2, m3, r, c, rb, mid>>

\* The caller reshapes the matrix it got back to the shape of the original.
CallReshapeBack ==
    /\ op = "reshape" /\ status = "returned"
    /\ \E g \in Garbage, fault \in BOOLEAN :
          LET res == reshape(rm, m1.rows, m1.cols, g)
          IN  /\ op' = "reshape_back"
              /\ mid' = rm
              /\ ub' = (ub \/ res.ub)
              /\ status' = Ending(res.ub, fault)
              /\ rm' = IF res.ub /\ fault THEN Empty ELSE res.m
    /\ UNCHANGED <<m1, m2, m3, r, c, rb>>

CallIsdiag ==
    /\ op = "isdiag" /\ status = "pending"
    /\ rb' = isdiag(m1)
    /\ status' = "returned"
    /\ UNCHANGED <<op, m1, m2, m3, r, c, ub, rm, mid>>

CallVstack ==
    /\ op = "vstack" /\ status = "pending"
    /\ \E g \in Garbage, fault \in BOOLEAN :
          LET res == vstack(m1, m2, g)
          IN  /\ ub' = res.ub
              /\ status' = Ending(res.ub, fault)
              /\ rm' = IF res.ub /\ fault THEN Empty ELSE res.m
    /\ UNCHANGED <<op, m1, m2, m3, r, c, rb, mid>>

CallHstack ==
    /\ op = "hstack" /\ status = "pending"
    /\ \E g \in Garbage, fault \in BOOLEAN :
          LET res == hstack(m1, m2, g)
          IN  /\ ub' = res.ub
              /\ status' = Ending(res.ub, fault)
              /\ rm' = IF res.ub /\ fault THEN Empty ELSE res.m
    /\ UNCHANGED <<op, m1, m2, m3, r, c, rb, mid>>

CallBlockDiag ==
    /\ op = "block_diag" /\ status = "pending"
    /\ rm' = block_diag(m1, m2)
    /\ status' = "returned"
    /\ UNCHANGED <<op, m1, m2, m3, r, c, ub, rb, mid>>

CallBlockDiag3 ==
    /\ op = "block_diag3" /\ status = "pending"
    /\ rm' = block_diag3(m1, m2, m3)
    /\ status' = "returned"
    /\ UNCHANGED <<op, m1, m2, m3, r, c, ub, rb, mid>>

CallKron ==
    /\ op = "kron" /\ status = "pending"
    /\ \E g \in Garbage : rm' = kron(m1, m2, g)
    /\ status' = "returned"
    /\ UNCHANGED <<op, m1, m2, m3, r, c, ub, rb, mid>>

Next ==
    \/ CallReshape
    \/ CallReshapeBack
    \/ CallIsdiag
    \/ CallVstack
    \/ CallHstack
    \/ CallBlockDiag
    \/ CallBlockDiag3
    \/ CallKron

Spec == Init /\ [][Next]_vars

TypeOK ==
    /\ op \in {"reshape", "reshape_back", "isdiag", "vstack",
               "hstack", "block_diag", "block_diag3", "kron"}
    /\ status \in {"pending", "returned", "abort"}
    /\ ub \in BOOLEAN /\ rb \in BOOLEAN
    /\ Len(rm.data) = Size(rm)

\* The call of operation o has been made and has come back.
Returned(o) == op = o /\ status = "returned"

\* The call of operation o has been made.
Called(o) == op = o /\ status # "pending"

\* The rows and the columns of x.
Rows(x) == 0..(x.rows - 1)
Cols(x) == 0..(x.cols - 1)

(* -------------------------------- claims ------------------------------- *)

\* C1: kron(A, B) always returns; the result has shape
\* (rows(A)*rows(B)) x (cols(A)*cols(B)); its block (i, j) of the shape of B
\* equals A[i,j] * B coefficient by coefficient; and every coefficient of the
\* result lies in exactly one such block.
KronBlocks ==
    Called("kron") =>
        /\ status = "returned" /\ ~ub
        /\ rm.rows = m1.rows * m2.rows
        /\ rm.cols = m1.cols * m2.cols
        /\ Len(rm.data) = rm.rows * rm.cols
        /\ \A i \in Rows(m1), j \in Cols(m1), a \in Rows(m2), b \in Cols(m2) :
              Get(rm, i * m2.rows + a, j * m2.cols + b)
                  = Times(Get(m1, i, j), Get(m2, a, b))
        /\ \A u \in Rows(rm), v \in Cols(rm) :
              Cardinality({ij \in Rows(m1) \X Cols(m1) :
                  /\ ij[1] * m2.rows <= u /\ u < (ij[1] + 1) * m2.rows
                  /\ ij[2] * m2.cols <= v /\ v < (ij[2] + 1) * m2.cols}) = 1

\* A 2 x 2 by 1 x 2 product has come back with its last block in place.
KronWitness ==
    /\ Returned("kron")
    /\ m1.rows = 2 /\ m1.cols = 2 /\ m2.rows = 1 /\ m2.cols = 2
    /\ rm.rows = 2 /\ rm.cols = 4
    /\ Get(rm, 1, 3) = Times(Get(m1, 1, 1), Get(m2, 0, 1))
    /\ Get(rm, 1, 3) = 16 * One

\* The offsets of block_diag's i-th argument (i from 1): the rows and the
\* columns of the arguments before it.
RowsBefore(i) ==
    (IF i > 1 THEN m1.rows ELSE 0) + (IF i > 2 THEN m2.rows ELSE 0)
        + (IF i > 3 THEN m3.rows ELSE 0)
ColsBefore(i) ==
    (IF i > 1 THEN m1.cols ELSE 0) + (IF i > 2 THEN m2.cols ELSE 0)
        + (IF i > 3 THEN m3.cols ELSE 0)
Arg(i) == IF i = 1 THEN m1 ELSE IF i = 2 THEN m2 ELSE m3
InBlock(i, u, v) ==
    /\ RowsBefore(i) <= u /\ u < RowsBefore(i) + Arg(i).rows
    /\ ColsBefore(i) <= v /\ v < ColsBefore(i) + Arg(i).cols

\* C2: block_diag of k = 2 or 3 matrices always returns; the result has
\* shape (sum of rows) x (sum of cols); argument i occupies the block whose
\* top-left corner is (rows before i, cols before i); every coefficient
\* outside the k blocks is exactly 0.
BlockDiagPlacement ==
    (Called("block_diag") \/ Called("block_diag3")) =>
        LET n == IF op = "block_diag" THEN 2 ELSE 3
        IN  /\ status = "returned" /\ ~ub
            /\ rm.rows = RowsBefore(n + 1)
            /\ rm.cols = ColsBefore(n + 1)
            /\ Len(rm.data) = rm.rows * rm.cols
            /\ \A i \in 1..n : \A u \in Rows(Arg(i)), v \in Cols(Arg(i)) :
                  Get(rm, RowsBefore(i) + u, ColsBefore(i) + v)
                      = Get(Arg(i), u, v)
            /\ \A u \in Rows(rm), v \in Cols(rm) :
                  (\A i \in 1..n : ~InBlock(i, u, v)) => Get(rm, u, v) = 0

\* Three non-empty blocks, the middle one 2 x 1, have been assembled: the
\* third sits at (3, 2) and the corner above it is 0.
BlockDiagWitness ==
    /\ Returned("block_diag3")
    /\ m1.rows = 1 /\ m1.cols = 1
    /\ m2.rows = 2 /\ m2.cols = 1
    /\ m3.rows = 1 /\ m3.cols = 2
    /\ Get(rm, 3, 2) = Get(m3, 0, 0) /\ Get(rm, 3, 2) # 0
    /\ Get(rm, 0, 3) = 0

\* C3: when cols(A) = cols(B) = n, vstack(A, B) returns a matrix of shape
\* (rows(A) + rows(B)) x n whose first rows(A) rows are A and whose other
\* rows are B; with a zero-row operand the result is the other operand.
VstackStacks ==
    (Called("vstack") /\ m1.cols = m2.cols) =>
        /\ status = "returned" /\ ~ub
        /\ rm.rows = m1.rows + m2.rows
        /\ rm.cols = m1.cols
        /\ Len(rm.data) = rm.rows * rm.cols
        /\ \A i \in Rows(m1), j \in Cols(m1) : Get(rm, i, j) = Get(m1, i, j)
        /\ \A i \in Rows(m2), j \in Cols(m2) :
              Get(rm, m1.rows + i, j) = Get(m2, i, j)
        /\ (m1.rows = 0 => rm = m2)
        /\ (m2.rows = 0 => rm = m1)

\* A 2 x 2 matrix has been stacked on a 1 x 2 matrix.
VstackWitness ==
    /\ Returned("vstack")
    /\ m1.rows = 2 /\ m1.cols = 2 /\ m2.rows = 1 /\ m2.cols = 2
    /\ rm.rows = 3
    /\ Get(rm, 1, 1) = Get(m1, 1, 1)
    /\ Get(rm, 2, 1) = Get(m2, 0, 1)

\* C4: when r*c = rows(M)*cols(M), reshape(M, r, c) returns an r x c matrix
\* whose coefficient (i, j) is the coefficient of M with the same
\* column-major linear index k = i + j*r, that is M[k mod rows(M),
\* k div rows(M)].
ReshapeColumnMajor ==
    (Called("reshape") /\ r * c = Size(m1)) =>
        /\ status = "returned" /\ ~ub
        /\ rm.rows = r /\ rm.cols = c
        /\ Len(rm.data) = r * c
        /\ \A i \in Rows(rm), j \in Cols(rm) :
              LET k == i + j * r
              IN  Get(rm, i, j) = Get(m1, k % m1.rows, k \div m1.rows)

\* A 2 x 2 matrix has been reshaped to 1 x 4: M[1,0] is now at (0, 1), where
\* row-major order would put M[0,1].
ReshapeWitness ==
    /\ Returned("reshape")
    /\ m1.rows = 2 /\ m1.cols = 2 /\ r = 1 /\ c = 4
    /\ Get(rm, 0, 1) = Get(m1, 1, 0)
    /\ Get(rm, 0, 1) # Get(m1, 0, 1)

\* C7 as claimed: reshape(M, r, c) with r*c different from the number of
\* coefficients of M fails with shape_mismatch (and so returns no r x c
\* matrix), leaving M as it was.
ReshapeRejectsMismatch ==
    (Called("reshape") /\ r * c # Size(m1)) => status = "shape_mismatch"

\* C10: when r*c = rows(M)*cols(M), reshaping M to r x c and the result back
\* to rows(M) x cols(M) gives a matrix equal to M in shape and coefficients;
\* neither call changes its argument (M, then the r x c intermediate).
ReshapeRoundTrip ==
    [][/\ (op = "reshape" /\ status = "pending" /\ status' # "pending")
            => m1' = m1
       /\ (op' = "reshape_back" /\ r * c = Size(m1))
            => /\ status' = "returned" /\ ~ub'
               /\ rm.rows = r /\ rm.cols = c
               /\ mid' = rm
               /\ m1' = m1
               /\ rm' = m1]_vars

\* A 2 x 2 matrix has gone to 4 x 1 and back.
RoundTripWitness ==
    /\ Returned("reshape_back")
    /\ m1.rows = 2 /\ m1.cols = 2 /\ r = 4 /\ c = 1
    /\ mid.rows = 4 /\ mid.cols = 1
    /\ Get(mid, 2, 0) = Get(m1, 0, 1)
    /\ rm = m1

\* The signed sum of the coefficients of x off the diagonal, over the first
\* n entries of its buffer.
RECURSIVE OffDiagTo(_, _)
OffDiagTo(x, n) ==
    IF n = 0
    THEN 0
    ELSE (IF RowOf(n, x.rows) # ColOf(n, x.rows) THEN x.data[n] ELSE 0)
             + OffDiagTo(x, n - 1)
OffDiagSum(x) == OffDiagTo(x, Size(x))

\* Every coefficient of x is a whole number.
IntegerValued(x) == \A k \in 1..Size(x) : x.data[k] % One = 0

VstackRejectsMismatch ==
    (Called("vstack") /\ m1.rows > 0 /\ m2.rows > 0 /\ m1.cols # m2.cols)
        => status = "shape_mismatch"

\* C9 as claimed: vstack with a zero-row operand and differing column counts
\* fails with shape_mismatch instead of returning one of the operands, and
\* so does hstack with a zero-column operand and differing row counts.
StackRejectsEmptyMismatch ==
    (\/ /\ Called("vstack")
        /\ (m1.rows = 0 \/ m2.rows = 0) /\ m1.cols # m2.cols
     \/ /\ Called("hstack")
        /\ (m1.cols = 0 \/ m2.cols = 0) /\ m1.rows # m2.rows)
        => status = "shape_mismatch"

\* x.transpose()
Transpose(x) ==
    [rows |-> x.cols, cols |-> x.rows,
     data |-> [k \in 1..Size(x) |->
                 Get(x, ColOf(k, x.cols), RowOf(k, x.cols))]]

\* C8: hstack(A, B) ends as vstack(A^T, B^T) does: it goes outside its
\* contract exactly when vstack does, and otherwise it returns the transpose
\* of vstack's result; then a zero-column operand is absorbed (the result
\* is the other operand), and with two operands that have columns the
\* column counts add, A on the left and B on the right.
HstackDualOfVstack ==
    Called("hstack") =>
        \A g \in Garbage :
            LET v == vstack(Transpose(m1), Transpose(m2), g)
            IN  /\ ub = v.ub
                /\ ~ub =>
                      /\ status = "returned"
                      /\ rm = Transpose(v.m)
                      /\ (m1.cols = 0 => rm = m2)
                      /\ (m1.cols > 0 /\ m2.cols = 0 => rm = m1)
                      /\ (m1.cols > 0 /\ m2.cols > 0) =>
                            /\ rm.cols = m1.cols + m2.cols
                            /\ \A i \in Rows(m1), j \in Cols(m1) :
                                  Get(rm, i, j) = Get(m1, i, j)
                            /\ \A i \in Rows(m2), j \in Cols(m2) :
                                  Get(rm, i, m1.cols + j) = Get(m2, i, j)

\* A 2 x 1 matrix has been put to the left of a 2 x 2 matrix.
HstackWitness ==
    /\ Returned("hstack") /\ ~ub
    /\ m1.rows = 2 /\ m1.cols = 1 /\ m2.rows = 2 /\ m2.cols = 2
    /\ rm.rows = 2 /\ rm.cols = 3
    /\ Get(rm, 1, 0) = Get(m1, 1, 0)
    /\ Get(rm, 1, 2) = Get(m2, 1, 1)
=============================================================================
